---- MODULE Spec2Model ----
(***************************************************************************)
(* A model of Characterbot.py: the emotion engine, the memory engine, the  *)
(* personality post-processor, the streaming LLM layer and the per-turn    *)
(* orchestration of the Streamlit script.                                  *)
(*                                                                         *)
(* Texts are TLA+ strings, handled character by character (lower, strip,   *)
(* split, join and substring containment are computed, not assumed).       *)
(* A value of random.random() is modelled in hundredths: 0.7 is 70.        *)
(***************************************************************************)
EXTENDS Integers, Sequences, FiniteSets, TLC

VARIABLES
    messages,        \* st.session_state.messages: sequence of [role, content]
    cognitive_state, \* st.session_state.cognitive_state: CognitiveState
    last_emotion,    \* st.session_state.last_emotion
    turn_count,      \* st.session_state.turn_count
    enable_memory,   \* sidebar toggle "Memory Engine"
    enable_openers,  \* sidebar toggle "Personality Openers"
    pc,              \* position of the script run: "Idle" or "Streaming"
    stream,          \* the chunks the ollama stream has produced in this turn
    raw_chunks,      \* local raw_chunks of the running turn
    memory_text,     \* local memory_text of the running turn
    error,           \* the uncaught exception that ended the last script run
    probe            \* the last direct call of a core function, with its result

vars == <<messages, cognitive_state, last_emotion, turn_count, enable_memory,
          enable_openers, pc, stream, raw_chunks, memory_text, error, probe>>

session == <<messages, cognitive_state, last_emotion, turn_count>>
widgets == <<enable_memory, enable_openers>>
locals  == <<pc, stream, raw_chunks, memory_text, error>>

(***************************************************************************)
(* Bounds of the model.                                                    *)
(***************************************************************************)
\* Submit is enabled while messages holds fewer entries than this.
MaxMessages == 2
\* The longest emotion history handed to a direct call of blend_emotion.
MaxHistory == 4
\* The most text pieces concatenated into an input of a direct call of
\* detect_emotion.
MaxPieces == 3

(***************************************************************************)
(* Python's str and list operations.                                       *)
(***************************************************************************)
Min(a, b) == IF a < b THEN a ELSE b
Max(a, b) == IF a > b THEN a ELSE b

Char(s, i) == SubSeq(s, i, i)

Whitespace == {" ", "\t", "\n"}

LowerChar(c) ==
    CASE c = "A" -> "a" [] c = "B" -> "b" [] c = "C" -> "c" [] c = "D" -> "d"
      [] c = "E" -> "e" [] c = "F" -> "f" [] c = "G" -> "g" [] c = "H" -> "h"
      [] c = "I" -> "i" [] c = "J" -> "j" [] c = "K" -> "k" [] c = "L" -> "l"
      [] c = "M" -> "m" [] c = "N" -> "n" [] c = "O" -> "o" [] c = "P" -> "p"
      [] c = "Q" -> "q" [] c = "R" -> "r" [] c = "S" -> "s" [] c = "T" -> "t"
      [] c = "U" -> "u" [] c = "V" -> "v" [] c = "W" -> "w" [] c = "X" -> "x"
      [] c = "Y" -> "y" [] c = "Z" -> "z" [] OTHER -> c

\* str.lower()
RECURSIVE lower(_)
lower(s) == IF s = "" THEN "" ELSE LowerChar(Char(s, 1)) \o lower(Tail(s))

RECURSIVE lstrip(_)
lstrip(s) == IF s # "" /\ Char(s, 1) \in Whitespace THEN lstrip(Tail(s)) ELSE s

RECURSIVE rstrip(_)
rstrip(s) ==
    IF s # "" /\ Char(s, Len(s)) \in Whitespace
    THEN rstrip(SubSeq(s, 1, Len(s) - 1))
    ELSE s

\* str.strip()
strip(s) == rstrip(lstrip(s))

RECURSIVE split_scan(_, _, _)
split_scan(s, word, acc) ==
    IF s = ""
    THEN IF word = "" THEN acc ELSE Append(acc, word)
    ELSE IF Char(s, 1) \in Whitespace
         THEN split_scan(Tail(s), "", IF word = "" THEN acc ELSE Append(acc, word))
         ELSE split_scan(Tail(s), word \o Char(s, 1), acc)

\* str.split() without arguments: the whitespace-delimited words
split(s) == split_scan(s, "", <<>>)

\* sep.join(words)
RECURSIVE join(_, _)
join(sep, words) ==
    IF Len(words) = 0 THEN ""
    ELSE IF Len(words) = 1 THEN words[1]
    ELSE words[1] \o sep \o join(sep, Tail(words))

\* kw in text
contains(text, kw) ==
    \E i \in 1..(Len(text) - Len(kw) + 1) : SubSeq(text, i, i + Len(kw) - 1) = kw

\* seq[-n:]
LastN(seq, n) == SubSeq(seq, Max(1, Len(seq) - n + 1), Len(seq))

\* seq[:n]
FirstN(seq, n) == SubSeq(seq, 1, Min(n, Len(seq)))

\* The values random.random() takes in the model, in hundredths: both sides of
\* each threshold the code compares against (0.2, 0.25, 0.5, 0.7).
Rolls == {0, 19, 20, 25, 26, 49, 50, 69, 70, 99}

\* The draws of a running turn: both sides of the threshold of blend_emotion,
\* both sides of the two thresholds of post_process, and draws behind
\* random.choice that reach every index of a list of 2 to 5 entries.
BlendRolls == {69, 70}
OpenerRolls == {19, 20, 49, 50}
ChoiceDraws == {0, 25, 50, 75, 99}

\* random.choice(seq), u the uniform draw behind it
choice(seq, u) == seq[((u * Len(seq)) \div 100) + 1]

(***************************************************************************)
(* Emotion engine.                                                         *)
(***************************************************************************)
EMOTION_KEYWORDS == <<
    [emotion |-> "curious",   keywords |-> <<"how", "why", "what if", "explain", "?">>],
    [emotion |-> "warm",      keywords |-> <<"thank", "love", "grateful">>],
    [emotion |-> "energetic", keywords |-> <<"!", "great", "awesome">>],
    [emotion |-> "pensive",   keywords |-> <<"think", "reflect", "meaning">>],
    [emotion |-> "uncertain", keywords |-> <<"not sure", "maybe", "might">> ] >>

\* the six labels the tone map of build_system_prompt knows
EmotionLabels == {"neutral", "curious", "warm", "pensive", "energetic", "uncertain"}

\* the inner loop of detect_emotion: one point per keyword contained in text
RECURSIVE count_keywords(_, _)
count_keywords(text, keywords) ==
    IF Len(keywords) = 0 THEN 0
    ELSE (IF contains(text, keywords[1]) THEN 1 ELSE 0)
         + count_keywords(text, Tail(keywords))

\* the scores dict after the two loops, in the insertion order of its keys:
\* scores[i] is the score of EMOTION_KEYWORDS[i].emotion
RECURSIVE score_all(_, _)
score_all(text, i) ==
    IF i > Len(EMOTION_KEYWORDS) THEN <<>>
    ELSE <<count_keywords(text, EMOTION_KEYWORDS[i].keywords)>> \o score_all(text, i + 1)

\* max(scores, key=scores.get) with the last maximal key winning
RECURSIVE max_key_last(_, _, _)
max_key_last(scores, i, best) ==
    IF i > Len(scores) THEN best
    ELSE max_key_last(scores, i + 1, IF scores[i] >= scores[best] THEN i ELSE best)

\* max(scores, key=scores.get): the keys in insertion order from the i-th on,
\* best the first maximal key so far
RECURSIVE max_key(_, _, _)
max_key(scores, i, best) ==
    IF i > Len(scores) THEN best
    ELSE max_key(scores, i + 1, IF scores[i] > scores[best] THEN i ELSE best)

detect_emotion(text) ==
    LET scores == score_all(lower(text), 1)
        best   == max_key(scores, 2, 1)
    IN  IF scores[best] > 0 THEN EMOTION_KEYWORDS[best].emotion ELSE "neutral"

\* blend_emotion with history[:3] in place of history[-3:]
blend_emotion_first3(history, roll, u) ==
    IF Len(history) = 0 THEN "neutral"
    ELSE IF roll < 70 THEN history[Len(history)]
    ELSE choice(FirstN(history, 3), u)

\* roll is the random.random() of the call, u the draw behind random.choice
blend_emotion(history, roll, u) ==
    IF Len(history) = 0 THEN "neutral"
    ELSE IF roll < 70 THEN history[Len(history)]
    ELSE choice(LastN(history, 3), u)

(***************************************************************************)
(* Memory engine.                                                          *)
(***************************************************************************)
MAX_TURNS == 6
FORGET_RATE == 25
MAX_FRAGMENTS == 8

\* the outcomes of one word's random.random() that the comparison tells apart
ForgetRolls == {FORGET_RATE, FORGET_RATE + 1}

\* CognitiveState()
NewCognitiveState ==
    [emotion_history |-> <<>>, memory_turns |-> <<>>, theme_fragments |-> <<>>]

\* [w for w in words if random.random() > FORGET_RATE or len(w) > 5],
\* rolls[i] the draw for the i-th word
RECURSIVE filter_words(_, _, _)
filter_words(words, rolls, i) ==
    IF i > Len(words) THEN <<>>
    ELSE (IF rolls[i] > FORGET_RATE \/ Len(words[i]) > 5 THEN <<words[i]>> ELSE <<>>)
         \o filter_words(words, rolls, i + 1)

\* update_memory without the truncations
update_memory_unbounded(state, role, content, rolls) ==
    LET turns == Append(state.memory_turns, [role |-> role, content |-> content])
    IN  IF role = "user"
        THEN LET fragment == join(" ", FirstN(filter_words(split(content), rolls, 1), 10))
             IN  [state EXCEPT !.memory_turns = turns,
                               !.theme_fragments = Append(@, fragment)]
        ELSE [state EXCEPT !.memory_turns = turns]

\* the filter with `and` in place of `or`
RECURSIVE filter_words_and(_, _, _)
filter_words_and(words, rolls, i) ==
    IF i > Len(words) THEN <<>>
    ELSE (IF rolls[i] > FORGET_RATE /\ Len(words[i]) > 5 THEN <<words[i]>> ELSE <<>>)
         \o filter_words_and(words, rolls, i + 1)

\* update_memory keeping a word only when it passes the roll and is long
update_memory_and(state, role, content, rolls) ==
    LET turns == LastN(Append(state.memory_turns, [role |-> role, content |-> content]),
                       MAX_TURNS * 2)
    IN  IF role = "user"
        THEN LET fragment == join(" ", FirstN(filter_words_and(split(content), rolls, 1), 10))
             IN  [state EXCEPT !.memory_turns = turns,
                               !.theme_fragments = LastN(Append(@, fragment), MAX_FRAGMENTS)]
        ELSE [state EXCEPT !.memory_turns = turns]

update_memory(state, role, content, rolls) ==
    LET turns == LastN(Append(state.memory_turns, [role |-> role, content |-> content]),
                       MAX_TURNS * 2)
    IN  IF role = "user"
        THEN LET words    == split(content)
                 filtered == filter_words(words, rolls, 1)
                 fragment == join(" ", FirstN(filtered, 10))
             IN  [state EXCEPT !.memory_turns = turns,
                               !.theme_fragments = LastN(Append(@, fragment), MAX_FRAGMENTS)]
        ELSE [state EXCEPT !.memory_turns = turns]

memory_summary(state) ==
    IF Len(state.theme_fragments) = 0 THEN ""
    ELSE "Recent themes: " \o join("; ", LastN(state.theme_fragments, 4))

(***************************************************************************)
(* Personality engine.                                                     *)
(***************************************************************************)
OPINION_OPENERS ==
    <<"I think ", "Honestly, ", "From where I stand, ", "I'd say ", "My sense is that ">>
\* the dash of the third pause and of the second uncertainty phrase is written "-"
REFLECTIVE_PAUSES == <<"Hmm. ", "Let me think. ", "Okay, so - ", "">>
UNCERTAINTY_PHRASES == <<"I'm not entirely sure, but ", "I could be wrong here - ">>

\* post_process with the word-count test off by one
post_process_ge(text, emotion, config, roll, u) ==
    LET t == strip(text)
    IN  IF config.enable_openers /\ Len(split(t)) >= 6
        THEN IF emotion = "pensive" /\ roll < 50 THEN choice(REFLECTIVE_PAUSES, u) \o t
             ELSE IF emotion = "uncertain" /\ roll < 50 THEN choice(UNCERTAINTY_PHRASES, u) \o t
             ELSE IF roll < 20 THEN choice(OPINION_OPENERS, u) \o t
             ELSE t
        ELSE t

\* roll is the one random.random() of the call, u the draw behind random.choice
post_process(text, emotion, config, roll, u) ==
    LET t == strip(text)
    IN  IF config.enable_openers /\ Len(split(t)) > 6
        THEN IF emotion = "pensive" /\ roll < 50 THEN choice(REFLECTIVE_PAUSES, u) \o t
             ELSE IF emotion = "uncertain" /\ roll < 50 THEN choice(UNCERTAINTY_PHRASES, u) \o t
             ELSE IF roll < 20 THEN choice(OPINION_OPENERS, u) \o t
             ELSE t
        ELSE t

(***************************************************************************)
(* Session state.                                                          *)
(***************************************************************************)
Init ==
    /\ messages = <<>>
    /\ cognitive_state = NewCognitiveState
    /\ last_emotion = "neutral"
    /\ turn_count = 0
    /\ enable_memory = TRUE
    /\ enable_openers = TRUE
    /\ pc = "Idle"
    /\ stream = <<>>
    /\ raw_chunks = <<>>
    /\ memory_text = ""
    /\ error = "none"
    /\ probe = [fn |-> "none"]

(***************************************************************************)
(* The turn: lines 558-594 of the script, with the stream as its one       *)
(* suspension point.                                                       *)
(***************************************************************************)
\* BehaviorConfig(enable_openers=...): enable_memory left at its default, True
config_memory_default ==
    [enable_memory |-> TRUE, enable_openers |-> enable_openers]

\* BehaviorConfig(enable_memory=..., enable_openers=...) of the running script
config == [enable_memory |-> enable_memory, enable_openers |-> enable_openers]

\* the texts a user submits
UserInputs == {"why?", "Grateful, thanks!"}

\* a chunk of the stream: its message carries a text, carries None, or lacks
\* the "content" key
Text(token) == [kind |-> "text", content |-> token]
NoneChunk == [kind |-> "none", content |-> ""]
AbsentChunk == [kind |-> "absent", content |-> ""]

\* the finite chunk sequences the completion service answers with
Streams == {
    <<>>,
    <<Text("I "), Text("wonder "), Text("too.")>>,
    <<Text("wonder "), Text("I "), Text("too.")>>,
    <<Text(" so it goes on "), Text(""), Text("and on, "), NoneChunk, Text("on and on.\n")>> }

\* the chunks the service may send next, stream being what it has sent
NextChunks ==
    {s[Len(stream) + 1] : s \in {t \in Streams : /\ Len(t) > Len(stream)
                                                /\ SubSeq(t, 1, Len(stream)) = stream}}
        \cup {AbsentChunk}

\* if token:
truthy(chunk) == chunk.kind = "text" /\ chunk.content # ""

\* lines 564-566: record the detected emotion, blend, the blend being what
\* the script stores as last_emotion
record_emotion(state, emotion, roll, u) ==
    LET history == Append(state.emotion_history, emotion)
    IN  [state   |-> [state EXCEPT !.emotion_history = history],
         blended |-> blend_emotion(history, roll, u)]

\* the end of a script run: its locals are gone
RunEnds(exception) ==
    /\ pc' = "Idle"
    /\ stream' = <<>>
    /\ raw_chunks' = <<>>
    /\ memory_text' = ""
    /\ error' = exception

\* a user submits user_input: the script runs up to the call of st.write_stream
\* (roll, u: the draws of blend_emotion; rolls: the draw per word of update_memory)
Submit(user_input) ==
    /\ pc = "Idle"
    /\ Len(messages) < MaxMessages
    /\ messages' = Append(messages, [role |-> "user", content |-> user_input])
    /\ LET emotion == detect_emotion(user_input)
           words   == split(user_input)
       IN  \E roll \in BlendRolls, u \in ChoiceDraws :
           \E rolls \in [1..(IF config.enable_memory THEN Len(words) ELSE 0) -> ForgetRolls] :
              LET step    == record_emotion(cognitive_state, emotion, roll, u)
                  updated == IF config.enable_memory
                             THEN update_memory(step.state, "user", user_input, rolls)
                             ELSE step.state
              IN  /\ cognitive_state' = updated
                  /\ last_emotion' = step.blended
                  /\ memory_text' = IF config.enable_memory
                                    THEN memory_summary(updated) ELSE ""
    /\ pc' = "Streaming"
    /\ stream' = <<>>
    /\ raw_chunks' = <<>>
    /\ error' = "none"
    /\ UNCHANGED <<turn_count, widgets, probe>>

\* the stream yields a chunk: stream_llm reads its text and token_gen records it
StreamChunk(chunk) ==
    /\ pc = "Streaming"
    /\ chunk \in NextChunks
    /\ IF chunk.kind = "absent"
       THEN \* chunk["message"]["content"] raises KeyError, nothing catches it
            /\ RunEnds("KeyError")
       ELSE /\ stream' = Append(stream, chunk)
            /\ raw_chunks' = IF truthy(chunk) THEN Append(raw_chunks, chunk.content)
                                               ELSE raw_chunks
            /\ UNCHANGED <<pc, memory_text, error>>
    /\ UNCHANGED <<session, widgets, probe>>

\* ollama.chat or the iteration of its stream raises, nothing catches it
StreamFail ==
    /\ pc = "Streaming"
    /\ RunEnds("ResponseError")
    /\ UNCHANGED <<session, widgets, probe>>

\* the end of the turn without the increment of turn_count
FinalizeWithoutCount ==
    /\ pc = "Streaming"
    /\ stream \in Streams
    /\ \E roll \in OpenerRolls, u \in ChoiceDraws :
          LET final_reply == post_process(join("", raw_chunks), last_emotion, config, roll, u)
          IN  /\ messages' = Append(messages,
                                    [role |-> "assistant", content |-> final_reply])
              /\ cognitive_state' =
                     IF config.enable_memory
                     THEN update_memory(cognitive_state, "assistant", final_reply, <<>>)
                     ELSE cognitive_state
    /\ RunEnds("none")
    /\ UNCHANGED <<turn_count, last_emotion, widgets, probe>>

\* the stream ends: lines 587-594 (blended is still last_emotion; roll, u: the
\* draws of post_process)
Finalize ==
    /\ pc = "Streaming"
    /\ stream \in Streams
    /\ LET raw_reply == join("", raw_chunks)
           blended   == last_emotion
       IN  \E roll \in OpenerRolls, u \in ChoiceDraws :
              LET final_reply == post_process(raw_reply, blended, config, roll, u)
              IN  /\ messages' = Append(messages,
                                        [role |-> "assistant", content |-> final_reply])
                  /\ turn_count' = turn_count + 1
                  /\ cognitive_state' =
                         IF config.enable_memory
                         THEN update_memory(cognitive_state, "assistant", final_reply, <<>>)
                         ELSE cognitive_state
    /\ RunEnds("none")
    /\ UNCHANGED <<last_emotion, widgets, probe>>

\* the Clear Session button without the reset of cognitive_state
ClearKeepingMemory ==
    /\ pc = "Idle"
    /\ messages' = <<>>
    /\ last_emotion' = "neutral"
    /\ turn_count' = 0
    /\ error' = "none"
    /\ UNCHANGED <<cognitive_state, widgets, pc, stream, raw_chunks, memory_text, probe>>

\* the Clear Session button
Clear ==
    /\ pc = "Idle"
    /\ messages' = <<>>
    /\ cognitive_state' = NewCognitiveState
    /\ last_emotion' = "neutral"
    /\ turn_count' = 0
    /\ error' = "none"
    /\ UNCHANGED <<widgets, pc, stream, raw_chunks, memory_text, probe>>

ToggleMemory ==
    /\ pc = "Idle"
    /\ enable_memory' = ~enable_memory
    /\ error' = "none"
    /\ UNCHANGED <<session, enable_openers, pc, stream, raw_chunks, memory_text, probe>>

ToggleOpeners ==
    /\ pc = "Idle"
    /\ enable_openers' = ~enable_openers
    /\ error' = "none"
    /\ UNCHANGED <<session, enable_memory, pc, stream, raw_chunks, memory_text, probe>>

Next ==
    \/ \E user_input \in UserInputs : Submit(user_input)
    \/ \E chunk \in NextChunks : StreamChunk(chunk)
    \/ StreamFail
    \/ Finalize
    \/ Clear
    \/ ToggleMemory
    \/ ToggleOpeners

Spec == Init /\ [][Next]_vars

(***************************************************************************)
(* The memory engine on its own: any sequence of update_memory calls on a  *)
(* CognitiveState that starts empty.                                       *)
(***************************************************************************)
MemRoles == {"user", "assistant"}
MemContents == {"hi"}

MemCall(role, content, rolls) ==
    /\ cognitive_state' = update_memory(cognitive_state, role, content, rolls)
    /\ UNCHANGED <<messages, last_emotion, turn_count, widgets, locals, probe>>

\* only a user call draws a roll per word
NextMem ==
    \E role \in MemRoles, content \in MemContents :
       \E rolls \in [1..(IF role = "user" THEN Len(split(content)) ELSE 0) -> ForgetRolls] :
          MemCall(role, content, rolls)

SpecMem == Init /\ [][NextMem]_vars

(***************************************************************************)
(* The core functions called directly, once each run, on inputs drawn from *)
(* bounded sets. probe records the call and what it returned.              *)
(***************************************************************************)
\* the sequences over S of length at most n
SeqsUpTo(S, n) == UNION {[1..k -> S] : k \in 0..n}

\* the texts given to detect_emotion: concatenations of these pieces
Pieces == {"Why ", "?", "THANK you, ", "explain", "!", "I think", "what", " if",
           "show maybe"}
DetectTexts == {join("", ps) : ps \in SeqsUpTo(Pieces, MaxPieces)}

DetectCall ==
    /\ probe.fn = "none"
    /\ \E text \in DetectTexts :
          probe' = [fn |-> "detect_emotion", text |-> text, result |-> detect_emotion(text)]
    /\ UNCHANGED <<session, widgets, locals>>

BlendCall ==
    /\ probe.fn = "none"
    /\ \E history \in SeqsUpTo(EmotionLabels, MaxHistory), roll \in BlendRolls,
          u \in ChoiceDraws :
          probe' = [fn |-> "blend_emotion", history |-> history,
                    result |-> blend_emotion(history, roll, u)]
    /\ UNCHANGED <<session, widgets, locals>>

\* emotion histories and user texts for the emotion step of a turn
StepHistories == {<<>>, <<"neutral">>, <<"warm", "pensive">>,
                  <<"curious", "energetic", "uncertain">>}
StepTexts == {"ok", "why?", "Grateful, thanks!", "great!!", "I think it has meaning",
              "not sure, might"}

RecordEmotionCall ==
    /\ probe.fn = "none"
    /\ \E history \in StepHistories, text \in StepTexts, roll \in BlendRolls,
          u \in ChoiceDraws :
          probe' = [fn |-> "record_emotion", history |-> history, text |-> text,
                    result |-> record_emotion(
                                  [NewCognitiveState EXCEPT !.emotion_history = history],
                                  detect_emotion(text), roll, u)]
    /\ UNCHANGED <<session, widgets, locals>>

\* raw replies given to post_process: 0, 2, 4, 6, 7 and 8 words, padded or not
PostTexts == {"", "hi there", " padded text here surely ",
              "one two three four five six", "\t one two three  four five six \n",
              "  one two three four five six seven\n",
              "one  two three four five six seven eight"}

PostProcessCall ==
    /\ probe.fn = "none"
    /\ \E text \in PostTexts, emotion \in EmotionLabels,
          cfg \in [enable_memory : {TRUE}, enable_openers : BOOLEAN],
          roll \in Rolls, u \in Rolls :
          probe' = [fn |-> "post_process", text |-> text, emotion |-> emotion,
                    config |-> cfg, roll |-> roll,
                    result |-> post_process(text, emotion, cfg, roll, u)]
    /\ UNCHANGED <<session, widgets, locals>>

\* states of the memory a call of update_memory starts from: the empty one and
\* one whose two lists are full
FullMemory ==
    [emotion_history |-> <<>>,
     memory_turns    |-> [i \in 1..(MAX_TURNS * 2) |->
                            [role |-> IF i % 2 = 1 THEN "user" ELSE "assistant",
                             content |-> "turn" \o Char("123456789abc", i)]],
     theme_fragments |-> [i \in 1..MAX_FRAGMENTS |-> "theme" \o Char("12345678", i)]]
MemoryStates == {NewCognitiveState, FullMemory}

CallRoles == {"user", "assistant", "system"}
CallContents == {"", "  hi   there \n", "why does this matter",
                 "a b c d e f g h i j k",
                 "wonderful a b c d e f g h i remember"}

\* only a user call draws a roll per word
UpdateMemoryCall ==
    /\ probe.fn = "none"
    /\ \E before \in MemoryStates, role \in CallRoles, content \in CallContents :
       \E rolls \in [1..(IF role = "user" THEN Len(split(content)) ELSE 0) -> ForgetRolls] :
          probe' = [fn |-> "update_memory", before |-> before, role |-> role,
                    content |-> content,
                    after |-> update_memory(before, role, content, rolls)]
    /\ UNCHANGED <<session, widgets, locals>>

NextFn ==
    \/ DetectCall
    \/ BlendCall
    \/ RecordEmotionCall
    \/ PostProcessCall
    \/ UpdateMemoryCall

SpecFn == Init /\ [][NextFn]_vars

(***************************************************************************)
(* Properties.                                                             *)
(***************************************************************************)
IsPrefix(s, t) == Len(s) <= Len(t) /\ SubSeq(t, 1, Len(s)) = s

\* the number of assistant turns in a message list
NumAssistant(msgs) == Cardinality({i \in 1..Len(msgs) : msgs[i].role = "assistant"})

\* the session as lines 429-432 create it
FreshSession ==
    /\ messages = <<>>
    /\ cognitive_state.emotion_history = <<>>
    /\ cognitive_state.memory_turns = <<>>
    /\ cognitive_state.theme_fragments = <<>>
    /\ last_emotion = "neutral"
    /\ turn_count = 0

\* C1: after any sequence of update_memory calls on a CognitiveState that
\* starts empty, whatever the roles, the contents and the word-drop rolls,
\* memory_turns holds at most 12 entries and theme_fragments at most 8.
C1_MemoryBounds ==
    /\ Len(cognitive_state.memory_turns) <= 12
    /\ Len(cognitive_state.theme_fragments) <= 8

\* Both lists are full and no user turn is left among the 12 memory turns: the
\* 8 user turns behind the fragments were dropped from the front.
C1_Witness ==
    /\ Len(cognitive_state.memory_turns) = 12
    /\ Len(cognitive_state.theme_fragments) = 8
    /\ \A i \in 1..12 : cognitive_state.memory_turns[i].role = "assistant"

\* C2: when the completion service fails during Streaming, after zero or more
\* fragments, the turn still completes: the step in which the failure
\* surfaces appends an assistant turn holding the post-processed accumulated
\* text, increments turn_count and returns to Idle.
C2_FailedStreamStillCompletes ==
    [][(pc = "Streaming" /\ error' = "ResponseError") =>
          /\ pc' = "Idle"
          /\ turn_count' = turn_count + 1
          /\ Len(messages') = Len(messages) + 1
          /\ messages'[Len(messages')].role = "assistant"
          /\ \E roll \in OpenerRolls, u \in ChoiceDraws :
                messages'[Len(messages')].content =
                    post_process(join("", raw_chunks), last_emotion, config, roll, u)]_vars

\* C3: once a turn has ended, by the end of its stream or by a failure of the
\* completion service, turn_count, the memory and messages reflect it together
\* or not at all: every user turn in messages is paired with an assistant turn
\* and counted, and memory turns come in user-assistant pairs.
C3_TurnStateUpdatesTogether ==
    (pc = "Idle" /\ error # "KeyError") =>
        /\ Len(messages) = 2 * turn_count
        /\ Len(cognitive_state.memory_turns) % 2 = 0

C5_ClearResets ==
    /\ [][Clear => FreshSession']_vars
    /\ [][FreshSession' \/ (IsPrefix(messages, messages') /\ turn_count' >= turn_count)]_vars

\* Clear is enabled in a session none of whose fields has its initial value.
C5_Witness ==
    /\ pc = "Idle"
    /\ Len(messages) >= 2
    /\ turn_count >= 1
    /\ last_emotion # "neutral"
    /\ cognitive_state.emotion_history # <<>>
    /\ cognitive_state.memory_turns # <<>>
    /\ cognitive_state.theme_fragments # <<>>

\* the number of trigger substrings of the i-th label that occur in the
\* lowercased text
TriggerCount(text, i) ==
    Cardinality({k \in 1..Len(EMOTION_KEYWORDS[i].keywords) :
                    contains(lower(text), EMOTION_KEYWORDS[i].keywords[k])})

LabelOrder == <<"curious", "warm", "energetic", "pensive", "uncertain">>

\* C6: detect_emotion returns neutral when no trigger substring of any label
\* occurs in the lowercased text, and otherwise the first label, in the order
\* curious, warm, energetic, pensive, uncertain, whose count of contained
\* trigger substrings is maximal.
C6_DetectEmotion ==
    probe.fn = "detect_emotion" =>
        IF \A i \in 1..5 : TriggerCount(probe.text, i) = 0
        THEN probe.result = "neutral"
        ELSE \E i \in 1..5 :
                /\ probe.result = LabelOrder[i]
                /\ EMOTION_KEYWORDS[i].emotion = LabelOrder[i]
                /\ \A j \in 1..5 : TriggerCount(probe.text, j) <= TriggerCount(probe.text, i)
                /\ \A j \in 1..(i - 1) : TriggerCount(probe.text, j) < TriggerCount(probe.text, i)

\* Two labels tie at the maximal count, warm and a later one, and warm is
\* returned.
C6_Witness ==
    /\ probe.fn = "detect_emotion"
    /\ probe.result = "warm"
    /\ TriggerCount(probe.text, 2) = 1
    /\ \E j \in 3..5 : TriggerCount(probe.text, j) = 1

\* C7: blend_emotion returns neutral for an empty history and otherwise one of
\* the last min(3, len(history)) entries, so the only entry of a one-element
\* history; and the label the emotion step of a turn stores as last_emotion is
\* one of the six known labels, and one of the last three of the history the
\* step leaves.
C7_BlendEmotion ==
    /\ probe.fn = "blend_emotion" =>
          LET h == probe.history
              n == Len(h)
          IN  /\ n = 0 => probe.result = "neutral"
              /\ n > 0 => \E i \in 1..n : i > n - 3 /\ probe.result = h[i]
              /\ n = 1 => probe.result = h[1]
    /\ probe.fn = "record_emotion" =>
          LET h == probe.result.state.emotion_history
          IN  /\ probe.result.blended \in
                    {"neutral", "curious", "warm", "pensive", "energetic", "uncertain"}
              /\ Len(h) = Len(probe.history) + 1
              /\ \E i \in 1..Len(h) : i > Len(h) - 3 /\ probe.result.blended = h[i]

\* A history of four labels blends to its second entry, which is neither the
\* last nor the first.
C7_Witness ==
    /\ probe.fn = "blend_emotion"
    /\ Len(probe.history) = 4
    /\ probe.result = probe.history[2]
    /\ probe.result \notin {probe.history[1], probe.history[3], probe.history[4]}

\* whether fragment words F from the j-th on are what the filter leaves of the
\* content words W from the i-th on, for some choice of the dropped short
\* words, cut after the tenth surviving word
RECURSIVE FragmentOf(_, _, _, _)
FragmentOf(W, F, i, j) ==
    IF j > Len(F)
    THEN Len(F) = 10 \/ \A k \in i..Len(W) : Len(W[k]) <= 5
    ELSE /\ i <= Len(W)
         /\ \/ W[i] = F[j] /\ FragmentOf(W, F, i + 1, j + 1)
            \/ Len(W[i]) <= 5 /\ FragmentOf(W, F, i + 1, j)

\* C8: update_memory adds exactly one theme fragment for role user (keeping
\* the last 8), also when the fragment is the empty string, and leaves
\* theme_fragments alone for any other role; the fragment is, joined by single
\* spaces, the first 10 words of a subsequence of the content's words that
\* holds every word longer than 5 characters.
C8_ThemeFragment ==
    probe.fn = "update_memory" =>
        LET old == probe.before.theme_fragments
            new == probe.after.theme_fragments
        IN  IF probe.role = "user"
            THEN /\ Len(new) >= 1
                 /\ new = LastN(Append(old, new[Len(new)]), 8)
                 /\ LET F == split(new[Len(new)])
                    IN  /\ new[Len(new)] = join(" ", F)
                        /\ Len(F) <= 10
                        /\ FragmentOf(split(probe.content), F, 1, 1)
            ELSE new = old

\* Every word of a content with words was dropped: the empty fragment was
\* appended.
C8_Witness ==
    /\ probe.fn = "update_memory"
    /\ probe.role = "user"
    /\ Len(split(probe.content)) > 0
    /\ Len(probe.after.theme_fragments) = Len(probe.before.theme_fragments) + 1
    /\ probe.after.theme_fragments[Len(probe.after.theme_fragments)] = ""

\* C9: post_process returns the trimmed text, nothing prepended, when
\* enable_openers is false or the trimmed text has 6 words or fewer, for every
\* emotion and every draw; otherwise the trimmed text, preceded by at most
\* one phrase of one phrase list.
C9_PostProcess ==
    probe.fn = "post_process" =>
        LET t == strip(probe.text)
        IN  IF ~probe.config.enable_openers \/ Len(split(t)) <= 6
            THEN probe.result = t
            ELSE \/ probe.result = t
                 \/ \E list \in {OPINION_OPENERS, REFLECTIVE_PAUSES, UNCERTAINTY_PHRASES} :
                       \E k \in 1..Len(list) : probe.result = list[k] \o t

\* Openers are on, the draw is below every threshold and the padded text has
\* exactly 6 words: it comes back trimmed and bare.
C9_Witness ==
    /\ probe.fn = "post_process"
    /\ probe.config.enable_openers
    /\ probe.roll < 20
    /\ probe.emotion = "pensive"
    /\ Len(split(probe.text)) = 6
    /\ probe.text # strip(probe.text)
    /\ probe.result = strip(probe.text)

\* C10: a chunk without a text payload is skipped silently: it adds nothing to
\* the accumulated reply, raises no error, and the stream goes on.
C10_MalformedChunkSkipped ==
    [][\A chunk \in {Text(""), NoneChunk, AbsentChunk} :
          StreamChunk(chunk) =>
             /\ raw_chunks' = raw_chunks
             /\ pc' = "Streaming"
             /\ error' = "none"]_vars

\* the number of user turns in a message list
NumUser(msgs) == Cardinality({i \in 1..Len(msgs) : msgs[i].role = "user"})

\* C11: in a turn processed with enable_memory false, the user step and the
\* assistant step leave memory_turns and theme_fragments unchanged and the
\* memory text given to the prompt builder is empty, also when theme_fragments
\* is not; the user step still adds exactly one label to emotion_history, so
\* emotion_history is as long as the user turns submitted since the last
\* clear, whatever the toggle was.
C11_MemoryDisabled ==
    /\ [](Len(cognitive_state.emotion_history) = NumUser(messages))
    /\ [][(pc = "Idle" /\ pc' = "Streaming") =>
             /\ Len(cognitive_state'.emotion_history)
                   = Len(cognitive_state.emotion_history) + 1
             /\ IsPrefix(cognitive_state.emotion_history, cognitive_state'.emotion_history)
             /\ ~enable_memory =>
                   /\ cognitive_state'.memory_turns = cognitive_state.memory_turns
                   /\ cognitive_state'.theme_fragments = cognitive_state.theme_fragments
                   /\ memory_text' = ""]_vars
    /\ [][(pc = "Streaming" /\ ~enable_memory) =>
             /\ cognitive_state'.memory_turns = cognitive_state.memory_turns
             /\ cognitive_state'.theme_fragments = cognitive_state.theme_fragments]_vars

\* A turn runs with the memory off while a theme fragment of an earlier turn
\* is stored: its memory text is empty and the earlier turn's memory is
\* intact, while emotion_history holds the labels of both turns.
C11_Witness ==
    /\ pc = "Streaming"
    /\ ~enable_memory
    /\ Len(cognitive_state.theme_fragments) = 1
    /\ cognitive_state.theme_fragments[1] # ""
    /\ Len(cognitive_state.memory_turns) = 1
    /\ memory_text = ""
    /\ Len(cognitive_state.emotion_history) = 2

====
